---- MODULE Spec2Model ----
(***************************************************************************)
(* Model of the icebox heap sanitizer plugin (plugins/fdp_san.cpp), of the *)
(* register accessors and of the PDB symbol index (core/registers.cpp).    *)
(*                                                                         *)
(* The guest is a set of threads, each with a stack of calls to the six    *)
(* hooked ntdll heap functions.  An entry hit runs the plugin's entry hook *)
(* before the callee; a return brings the thread to the call's return      *)
(* address, where a breakpoint pending for (address, thread) fires.        *)
(***************************************************************************)
EXTENDS Integers, Sequences, FiniteSets, TLC

VARIABLES
    threads_allocating,     \* FdpSan::Data::threads_allocating
    threads_reallocating,   \* FdpSan::Data::threads_reallocating
    heap_datas,             \* FdpSan::Data::heap_datas : heap_ctx_t -> SIZE_T
    ret_ctxs,               \* FdpSan::Data::ret_ctxs   : ctx_t -> Breakpoint
    stack,                  \* guest: per thread, the heap calls in progress
    live,                   \* guest: the heap blocks in use
    budget,                 \* guest: entry hits left to this run
    own,                    \* per pending breakpoint: the call it belongs to
    ev,                     \* the last guest event (entry hit or return)
    out                     \* what the plugin did on the last event

sanVars == <<threads_allocating, threads_reallocating, heap_datas, ret_ctxs,
             stack, live, budget, own, ev, out>>

VARIABLES
    shm,                    \* the VM behind the FDP channel: its registers and MSRs
    reg_op                  \* the last register access and what it returned

regVars == <<shm, reg_op>>

VARIABLES
    types,                  \* the parser's types_byname, in iteration order
    members_,               \* Pdb::members_
    strucs_,                \* Pdb::strucs_
    globals,                \* pdb.get_global_variables(), in the parser's order
    pc,                     \* Pdb::setup: "load", "globals", "ready"
    idx,                    \* Pdb::setup: the next string index
    data_strings_,          \* Pdb::data_strings_: the nul-terminated names
    strings_,               \* Pdb::strings_
    symbols_,               \* Pdb::symbols_
    offsets_to_symbols_,    \* Pdb::offsets_to_symbols_
    query                   \* the last lookup and its result

pdbVars == <<globals, types, members_, strucs_, pc, idx, data_strings_, strings_, symbols_, offsets_to_symbols_, query>>

VARIABLES
    buf,                    \* read_pdb: the image bytes, src_size of them
    oob,                    \* the memory that lies behind the buffer
    src,                    \* read_pdb: where the search resumes (an index)
    rp_pc,                  \* read_pdb: "search", "done" or "fault"
    rp_res,                 \* read_pdb: its result
    examined                \* the highest index read_pdb has examined

idVars == <<buf, oob, src, rp_pc, rp_res, examined>>

vars == <<sanVars, regVars, pdbVars, idVars>>

----------------------------------------------------------------------------
(* Bounds of the guest.                                                    *)

MaxCalls == 2

Threads     == {1, 2}

\* The return addresses of the guest's call sites: a call site calls one
\* function.
CallSites(fn) ==
    CASE fn = "alloc"   -> {4096, 4112}
      [] fn = "realloc" -> {8192}
      [] fn = "free"    -> {12288}
      [] fn = "size"    -> {16384}
      [] fn = "setuser" -> {20480}
      [] fn = "getuser" -> {24576}

HeapHandles == {7}
Sizes       == {8, 24}
Blocks      == {256, 512}
Results     == {0, 1} \cup Sizes \cup Blocks
BaseAddrs   == {272, 64}
Fns         == {"alloc", "realloc", "free", "size", "setuser", "getuser"}
RspValue    == 65536

----------------------------------------------------------------------------
(* Optional values.                                                        *)

Some(v) == [ok |-> TRUE, val |-> v]

nullopt == [ok |-> FALSE, val |-> 0]

emplace(m, k, v) == IF k \in DOMAIN m THEN m ELSE m @@ (k :> v)

erase(m, k) == [x \in DOMAIN m \ {k} |-> m[x]]

----------------------------------------------------------------------------
(* core/registers.cpp                                                      *)

\* chan: what fdp::read_register or fdp::read_msr_register returned.
registers_read(chan) == IF chan.ok THEN chan.val ELSE 0

registers_read_msr(chan) == IF chan.ok THEN chan.val ELSE 0

\* ok: what fdp::write_register or fdp::write_msr_register returned.
registers_write(ok) == ok

registers_write_msr(ok) == ok

----------------------------------------------------------------------------
(* plugins/fdp_san.cpp                                                     *)

add_size == 32

half_add_size == add_size \div 2

ctx_t(addr, thread) == <<addr, thread>>

heap_ctx_t(HeapHandle, addr, thread) == <<HeapHandle, addr, thread>>

is_present(u, thread) == thread \in u

is_addr_tracked(hd, heap_ctx) == heap_ctx \in DOMAIN hd

\* rax: the channel's answer to the RAX read; wr_ok: whether the RAX write
\* succeeds.  The result carries the guest's RAX after the call.
add_to_ret_val(rax, wr_ok, size) ==
    LET ret == registers_read(rax)
    IN  IF ret = 0 THEN [ok |-> FALSE, val |-> 0, rax |-> rax.val]
        ELSE IF ~wr_ok THEN [ok |-> FALSE, val |-> 0, rax |-> rax.val]
        ELSE [ok |-> TRUE, val |-> ret + size, rax |-> ret + size]

\* rsp: the channel's answer to the RSP read; mem_ok: whether the guest read
\* at RSP succeeds; top: the 8 bytes on top of the guest stack.
get_return_address(rsp, mem_ok, top) ==
    IF registers_read(rsp) = 0 THEN nullopt
    ELSE IF mem_ok THEN Some(top) ELSE nullopt

\* What a hook or a return callback leaves behind: the plugin's four
\* containers and the record of what it did to the guest.
Leave(ta, tr, hd, rc, o) ==
    /\ threads_allocating' = ta
    /\ threads_reallocating' = tr
    /\ heap_datas' = hd
    /\ ret_ctxs' = rc
    /\ out' = o
    /\ UNCHANGED <<regVars, pdbVars, idVars>>

\* writes: the arguments rewritten, as <<index, value>>; installed: the hook
\* called set_callback_on_return; passed: the hook went past the thread check
\* and its re-entrancy filter; dup: the key of the breakpoint it created was
\* already in ret_ctxs; fired: a return-site breakpoint fired, and then
\* mine: it was installed by the call that returns; again: its callback had
\* run before; cb: what its callback captured; rax_in, rax_out: RAX around
\* the callback.
NoOut ==
    [writes |-> {}, installed |-> FALSE, passed |-> FALSE, dup |-> FALSE,
     fired |-> FALSE, mine |-> FALSE, again |-> FALSE,
     cb |-> [kind |-> "none", HeapHandle |-> 0, Size |-> 0],
     rax_in |-> 0, rax_out |-> 0]

\* The breakpoint handle ret_ctxs keeps: where and for which thread it is
\* set, and what the callback's lambda captured.
Breakpoint(kind, addr, thread, HeapHandle, Size) ==
    [kind |-> kind, addr |-> addr, thread |-> thread,
     HeapHandle |-> HeapHandle, Size |-> Size]

register_RtlpAllocateHeapInternal(thread, HeapHandle, Size, env, top) ==
    LET ta == threads_allocating
        tr == threads_reallocating
        hd == heap_datas
        rc == ret_ctxs
    IN  IF ~thread.ok THEN Leave(ta, tr, hd, rc, NoOut)
        ELSE IF is_present(tr, thread.val) \/ is_present(ta, thread.val)
        THEN Leave(ta, tr, hd, rc, NoOut)
        ELSE
        LET ta1 == ta \cup {thread.val}
            o1  == [NoOut EXCEPT !.passed = TRUE]
        IN  IF ~env.wr1_ok THEN Leave(ta1, tr, hd, rc, o1)
            ELSE
            LET o2 == [o1 EXCEPT !.writes = {<<1, Size + add_size>>}]
                return_addr == get_return_address(
                    [ok |-> env.rsp_ok, val |-> RspValue], env.mem_ok, top)
            IN  IF ~return_addr.ok THEN Leave(ta1, tr, hd, rc, o2)
                ELSE
                LET key == ctx_t(return_addr.val, thread.val)
                    bp  == Breakpoint("alloc", return_addr.val, thread.val,
                                      HeapHandle, Size)
                IN  Leave(ta1, tr, hd, emplace(rc, key, bp),
                          [o2 EXCEPT !.installed = TRUE,
                                     !.dup = (key \in DOMAIN rc)])

register_RtlpReAllocateHeapInternal(thread, HeapHandle, BaseAddress, Size, env, top) ==
    LET ta == threads_allocating
        tr == threads_reallocating
        hd == heap_datas
        rc == ret_ctxs
    IN  IF ~thread.ok THEN Leave(ta, tr, hd, rc, NoOut)
        ELSE
        LET tr1 == tr \cup {thread.val}
            o1  == [NoOut EXCEPT !.passed = TRUE]
            ctx == heap_ctx_t(HeapHandle, BaseAddress, thread.val)
            tracked == is_addr_tracked(hd, ctx)
        IN  IF tracked /\ ~env.wr1_ok THEN Leave(ta, tr1, hd, rc, o1)
            ELSE
            LET hd1 == IF tracked THEN erase(hd, ctx) ELSE hd
                w1  == IF tracked THEN {<<2, BaseAddress - half_add_size>>} ELSE {}
                o2  == [o1 EXCEPT !.writes = w1]
            IN  IF ~env.wr2_ok THEN Leave(ta, tr1, hd1, rc, o2)
                ELSE
                LET o3 == [o2 EXCEPT !.writes = w1 \cup {<<3, Size + add_size>>}]
                    return_addr == get_return_address(
                        [ok |-> env.rsp_ok, val |-> RspValue], env.mem_ok, top)
                IN  IF ~return_addr.ok THEN Leave(ta, tr1, hd1, rc, o3)
                    ELSE
                    LET key == ctx_t(return_addr.val, thread.val)
                        bp  == Breakpoint("realloc", return_addr.val, thread.val,
                                          HeapHandle, Size)
                    IN  Leave(ta, tr1, hd1, emplace(rc, key, bp),
                              [o3 EXCEPT !.installed = TRUE,
                                         !.dup = (key \in DOMAIN rc)])

register_RtlFreeHeap(thread, HeapHandle, BaseAddress, env) ==
    LET ta == threads_allocating
        tr == threads_reallocating
        hd == heap_datas
        rc == ret_ctxs
    IN  IF ~thread.ok THEN Leave(ta, tr, hd, rc, NoOut)
        ELSE
        LET o1  == [NoOut EXCEPT !.passed = TRUE]
            ctx == heap_ctx_t(HeapHandle, BaseAddress, thread.val)
        IN  IF is_addr_tracked(hd, ctx) THEN Leave(ta, tr, hd, rc, o1)
            ELSE IF ~env.wr1_ok THEN Leave(ta, tr, hd, rc, o1)
            ELSE Leave(ta, tr, erase(hd, ctx), rc,
                       [o1 EXCEPT !.writes = {<<2, BaseAddress - half_add_size>>}])

register_RtlSizeHeap(thread, HeapHandle, BaseAddress, env, top) ==
    LET ta == threads_allocating
        tr == threads_reallocating
        hd == heap_datas
        rc == ret_ctxs
    IN  IF ~thread.ok THEN Leave(ta, tr, hd, rc, NoOut)
        ELSE
        LET o1  == [NoOut EXCEPT !.passed = TRUE]
            ctx == heap_ctx_t(HeapHandle, BaseAddress, thread.val)
        IN  IF is_addr_tracked(hd, ctx) THEN Leave(ta, tr, hd, rc, o1)
            ELSE IF ~env.wr1_ok THEN Leave(ta, tr, hd, rc, o1)
            ELSE
            LET o2 == [o1 EXCEPT !.writes = {<<2, BaseAddress - half_add_size>>}]
                return_addr == get_return_address(
                    [ok |-> env.rsp_ok, val |-> RspValue], env.mem_ok, top)
            IN  IF ~return_addr.ok THEN Leave(ta, tr, hd, rc, o2)
                ELSE
                LET key == ctx_t(return_addr.val, thread.val)
                    bp  == Breakpoint("size", return_addr.val, thread.val,
                                      HeapHandle, 0)
                IN  Leave(ta, tr, hd, emplace(rc, key, bp),
                          [o2 EXCEPT !.installed = TRUE,
                                     !.dup = (key \in DOMAIN rc)])

\* The set-user-value hook without its check of the current thread.
register_RtlSetUserValueHeap_unchecked(thread, HeapHandle, BaseAddress, env) ==
    LET ta == threads_allocating
        tr == threads_reallocating
        hd == heap_datas
        rc == ret_ctxs
        o1  == [NoOut EXCEPT !.passed = TRUE]
        ctx == heap_ctx_t(HeapHandle, BaseAddress, thread.val)
    IN  IF is_addr_tracked(hd, ctx) THEN Leave(ta, tr, hd, rc, o1)
        ELSE IF ~env.wr1_ok THEN Leave(ta, tr, hd, rc, o1)
        ELSE Leave(ta, tr, hd, rc,
                   [o1 EXCEPT !.writes = {<<2, BaseAddress - half_add_size>>}])

register_RtlSetUserValueHeap(thread, HeapHandle, BaseAddress, env) ==
    LET ta == threads_allocating
        tr == threads_reallocating
        hd == heap_datas
        rc == ret_ctxs
    IN  IF ~thread.ok THEN Leave(ta, tr, hd, rc, NoOut)
        ELSE
        LET o1  == [NoOut EXCEPT !.passed = TRUE]
            ctx == heap_ctx_t(HeapHandle, BaseAddress, thread.val)
        IN  IF is_addr_tracked(hd, ctx) THEN Leave(ta, tr, hd, rc, o1)
            ELSE IF ~env.wr1_ok THEN Leave(ta, tr, hd, rc, o1)
            ELSE Leave(ta, tr, hd, rc,
                       [o1 EXCEPT !.writes = {<<2, BaseAddress - half_add_size>>}])

register_RtlGetUserInfoHeap(thread, HeapHandle, BaseAddress, env) ==
    LET ta == threads_allocating
        tr == threads_reallocating
        hd == heap_datas
        rc == ret_ctxs
    IN  IF ~thread.ok THEN Leave(ta, tr, hd, rc, NoOut)
        ELSE
        LET o1  == [NoOut EXCEPT !.passed = TRUE]
            ctx == heap_ctx_t(HeapHandle, BaseAddress, thread.val)
        IN  IF is_addr_tracked(hd, ctx) THEN Leave(ta, tr, hd, rc, o1)
            ELSE IF ~env.wr1_ok THEN Leave(ta, tr, hd, rc, o1)
            ELSE Leave(ta, tr, hd, rc,
                       [o1 EXCEPT !.writes = {<<2, BaseAddress - half_add_size>>}])

on_return_RtlpAllocateHeapInternal(ta, tr, addr, thread, HeapHandle, Size, rax, wr_ok, o) ==
    LET hd == heap_datas
        rc == ret_ctxs
        ret_ctx == ctx_t(addr, thread)
    IN  IF ret_ctx \notin DOMAIN rc THEN Leave(ta, tr, hd, rc, o)
        ELSE
        LET alloc_addr == add_to_ret_val(rax, wr_ok, half_add_size)
            o1 == [o EXCEPT !.rax_out = alloc_addr.rax]
        IN  IF ~alloc_addr.ok THEN Leave(ta, tr, hd, rc, o1)
            ELSE Leave(ta, tr,
                       emplace(hd, heap_ctx_t(HeapHandle, alloc_addr.val, thread), Size),
                       erase(rc, ret_ctx), o1)

on_return_RtlSizeHeap(ta, tr, addr, thread, rax, wr_ok, o) ==
    LET hd == heap_datas
        rc == ret_ctxs
        ret_ctx == ctx_t(addr, thread)
    IN  IF ret_ctx \notin DOMAIN rc THEN Leave(ta, tr, hd, rc, o)
        ELSE Leave(ta, tr, hd, erase(rc, ret_ctx),
                   [o EXCEPT !.rax_out = add_to_ret_val(rax, wr_ok, add_size).rax])

\* The three lambdas handed to set_callback_on_return.
on_ret(bp, rax, wr_ok, o) ==
    CASE bp.kind = "alloc" ->
            on_return_RtlpAllocateHeapInternal(
                threads_allocating \ {bp.thread}, threads_reallocating,
                bp.addr, bp.thread, bp.HeapHandle, bp.Size, rax, wr_ok, o)
      [] bp.kind = "realloc" ->
            on_return_RtlpAllocateHeapInternal(
                threads_allocating, threads_reallocating \ {bp.thread},
                bp.addr, bp.thread, bp.HeapHandle, bp.Size, rax, wr_ok, o)
      [] bp.kind = "size" ->
            on_return_RtlSizeHeap(
                threads_allocating, threads_reallocating,
                bp.addr, bp.thread, rax, wr_ok, o)

----------------------------------------------------------------------------
(* The collaborators of the plugin: the OS model, the breakpoint registry  *)
(* and the guest.                                                          *)

\* os->thread_current(): the running thread, or nothing when it cannot be
\* resolved.
thread_current(t, ok) == IF ok THEN Some(t) ELSE nullopt

\* The registry keeps a breakpoint for as long as a handle to it exists: the
\* handles that outlive a hook are the ones stored in ret_ctxs.
pending_breakpoints == {ret_ctxs[k] : k \in DOMAIN ret_ctxs}

\* The breakpoints that fire when thread t executes the instruction at addr.
firing(addr, t) == {b \in pending_breakpoints : b.addr = addr /\ b.thread = t}

\* What can go wrong in an entry hook: the hook returns at the first failure,
\* so at most one of its guest accesses is seen to fail.
AllOk ==
    [thread_ok |-> TRUE, wr1_ok |-> TRUE, wr2_ok |-> TRUE,
     rsp_ok |-> TRUE, mem_ok |-> TRUE]

Envs ==
    {AllOk, [AllOk EXCEPT !.thread_ok = FALSE], [AllOk EXCEPT !.wr1_ok = FALSE],
     [AllOk EXCEPT !.wr2_ok = FALSE], [AllOk EXCEPT !.rsp_ok = FALSE],
     [AllOk EXCEPT !.mem_ok = FALSE]}

\* The hooks that write one argument and read no return address have two
\* fallible steps; those that write one argument have no second write.
Envs1 == {e \in Envs : e.wr2_ok /\ e.rsp_ok /\ e.mem_ok}

Envs2 == {e \in Envs : e.wr2_ok}

\* The return callbacks read RAX and write it back.
RetEnvs == {<<TRUE, TRUE>>, <<FALSE, TRUE>>, <<TRUE, FALSE>>}

\* The function a call site calls.
SiteFn(ra) == CHOOSE fn \in Fns : ra \in CallSites(fn)

\* The BaseAddress the callee receives: the caller's, or what the hook wrote
\* over argument 2.
Received(base, writes) ==
    IF \E w \in writes : w[1] = 2
    THEN (CHOOSE w \in writes : w[1] = 2)[2]
    ELSE base

\* A call in progress: the return address on top of the stack at its entry,
\* the block address RtlpReAllocateHeapInternal was handed (it releases it
\* when it succeeds), and whether an entry hook of the
\* alloc family took the call in charge ("alloc", "realloc": that hook went
\* past its checks; "none": it returned early, or the function is not of the
\* alloc family).
Frame(fn, ra, base) ==
    [ret |-> ra,
     arg |-> IF fn = "realloc" THEN Received(base, out'.writes) ELSE 0,
     st  |-> IF out'.passed /\ fn \in {"alloc", "realloc"} THEN fn ELSE "none"]

\* The guest part of an entry hit: thread t calls fn from the call site whose
\* return address is ra.  RtlFreeHeap releases the block it is handed.
Enter(t, fn, ra, h, base, size, env) ==
    /\ stack' = [stack EXCEPT ![t] = Append(@, Frame(fn, ra, base))]
    /\ budget' = budget - 1
    /\ live' = IF fn = "free" THEN live \ {Received(base, out'.writes)} ELSE live
    /\ own' = IF out'.installed /\ ~out'.dup
              THEN (ctx_t(ra, t) :> [owner |-> Len(stack[t]) + 1, ran |-> FALSE]) @@ own
              ELSE own
    /\ ev' = [kind |-> "call", fn |-> fn, t |-> t, thread_ok |-> env.thread_ok,
              ok |-> (env = AllOk), addr |-> ra, h |-> h, base |-> base, size |-> size]

CanEnter(t) == budget > 0

AllocEntry(t, ra, h, size, env) ==
    /\ CanEnter(t)
    /\ register_RtlpAllocateHeapInternal(
           thread_current(t, env.thread_ok), h, size, env, ra)
    /\ Enter(t, "alloc", ra, h, 0, size, env)

ReallocEntry(t, ra, h, base, size, env) ==
    /\ CanEnter(t)
    /\ register_RtlpReAllocateHeapInternal(
           thread_current(t, env.thread_ok), h, base, size, env, ra)
    /\ Enter(t, "realloc", ra, h, base, size, env)

FreeEntry(t, ra, h, base, env) ==
    /\ CanEnter(t)
    /\ register_RtlFreeHeap(thread_current(t, env.thread_ok), h, base, env)
    /\ Enter(t, "free", ra, h, base, 0, env)

SizeEntry(t, ra, h, base, env) ==
    /\ CanEnter(t)
    /\ register_RtlSizeHeap(thread_current(t, env.thread_ok), h, base, env, ra)
    /\ Enter(t, "size", ra, h, base, 0, env)

SetUserValueEntry(t, ra, h, base, env) ==
    /\ CanEnter(t)
    /\ register_RtlSetUserValueHeap(thread_current(t, env.thread_ok), h, base, env)
    /\ Enter(t, "setuser", ra, h, base, 0, env)

GetUserInfoEntry(t, ra, h, base, env) ==
    /\ CanEnter(t)
    /\ register_RtlGetUserInfoHeap(thread_current(t, env.thread_ok), h, base, env)
    /\ Enter(t, "getuser", ra, h, base, 0, env)

\* What the callee of frame f can leave in RAX: an allocation fails (0) or
\* returns a block that is not in use, a reallocation can succeed only on a
\* block in use and may return the same block, RtlSizeHeap returns a size,
\* the three others a BOOLEAN.
CalleeResults(f) ==
    CASE SiteFn(f.ret) = "alloc"   -> {0} \cup (Blocks \ live)
      [] SiteFn(f.ret) = "realloc" ->
            IF f.arg \in live THEN {0} \cup (Blocks \ (live \ {f.arg})) ELSE {0}
      [] SiteFn(f.ret) = "size"    -> Sizes
      [] OTHER                     -> {0, 1}

\* The blocks in use once the callee of frame f has returned r.
LiveAfter(f, r) ==
    CASE SiteFn(f.ret) = "alloc"   -> IF r = 0 THEN live ELSE live \cup {r}
      [] SiteFn(f.ret) = "realloc" -> IF r = 0 THEN live ELSE (live \ {f.arg}) \cup {r}
      [] OTHER                     -> live

\* The innermost call of thread t returns r in RAX; the thread arrives at the
\* call's return address, where the breakpoint pending for it, if any, fires.
Return(t, r, rax_ok, wr_ok) ==
    /\ stack[t] # <<>>
    /\ r \in CalleeResults(stack[t][Len(stack[t])])
    /\ LET n   == Len(stack[t])
           f   == stack[t][n]
           key == ctx_t(f.ret, t)
           hit == firing(f.ret, t)
           o0  == [NoOut EXCEPT !.rax_in = r, !.rax_out = r]
       IN  /\ budget' = budget
           /\ live' = LiveAfter(f, r)
           /\ ev' = [kind |-> "ret", fn |-> SiteFn(f.ret), t |-> t, thread_ok |-> TRUE,
                     ok |-> (rax_ok /\ wr_ok) \/ hit = {},
                     addr |-> f.ret, h |-> 0, base |-> 0, size |-> 0]
           /\ IF hit = {}
              THEN /\ stack' = [stack EXCEPT ![t] = SubSeq(@, 1, n - 1)]
                   /\ own' = own
                   /\ Leave(threads_allocating, threads_reallocating, heap_datas,
                            ret_ctxs, NoOut)
              ELSE LET bp == CHOOSE b \in hit : TRUE
                       o  == own[key]
                   IN  /\ on_ret(bp, [ok |-> rax_ok, val |-> r], wr_ok,
                                 [o0 EXCEPT !.fired = TRUE,
                                            !.mine = (o.owner = n),
                                            !.again = o.ran,
                                            !.cb = [kind |-> bp.kind,
                                                    HeapHandle |-> bp.HeapHandle,
                                                    Size |-> bp.Size]])
                       /\ own' = IF key \in DOMAIN ret_ctxs'
                                 THEN [own EXCEPT ![key] =
                                          [owner |-> IF o.owner = n THEN 0 ELSE o.owner,
                                           ran |-> TRUE]]
                                 ELSE erase(own, key)
                       /\ stack' = [stack EXCEPT ![t] = SubSeq(@, 1, n - 1)]

----------------------------------------------------------------------------
(* The register accessors of core/registers.cpp over the FDP channel.      *)

Regs == {"rax", "rsp"}

Msrs == {"lstar", "kernel_gs_base"}

RegValues == {0, 1, 2}

\* fdp::read_register and fdp::read_msr_register: the value in the VM, or
\* nothing when the channel fails (up = FALSE).
fdp_read(file, reg, up) == IF up THEN Some(file[reg]) ELSE nullopt

NoRegOp == [op |-> "none", reg |-> "none", chan |-> nullopt, ret |-> 0, done |-> FALSE]

ReadRegister(reg, up) ==
    LET chan == fdp_read(shm.reg, reg, up)
    IN  /\ reg_op' = [op |-> "read", reg |-> reg, chan |-> chan,
                      ret |-> registers_read(chan), done |-> up]
        /\ UNCHANGED <<shm, sanVars, pdbVars, idVars>>

ReadMsr(reg, up) ==
    LET chan == fdp_read(shm.msr, reg, up)
    IN  /\ reg_op' = [op |-> "read_msr", reg |-> reg, chan |-> chan,
                      ret |-> registers_read_msr(chan), done |-> up]
        /\ UNCHANGED <<shm, sanVars, pdbVars, idVars>>

WriteRegister(reg, value, up) ==
    /\ shm' = IF up THEN [shm EXCEPT !.reg[reg] = value] ELSE shm
    /\ reg_op' = [op |-> "write", reg |-> reg, chan |-> nullopt,
                  ret |-> 0, done |-> registers_write(up)]
    /\ UNCHANGED <<sanVars, pdbVars, idVars>>

WriteMsr(reg, value, up) ==
    /\ shm' = IF up THEN [shm EXCEPT !.msr[reg] = value] ELSE shm
    /\ reg_op' = [op |-> "write_msr", reg |-> reg, chan |-> nullopt,
                  ret |-> 0, done |-> registers_write_msr(up)]
    /\ UNCHANGED <<sanVars, pdbVars, idVars>>

RegsIdle ==
    /\ shm = [reg |-> [r \in Regs |-> 0], msr |-> [r \in Msrs |-> 0]]
    /\ reg_op = NoRegOp

----------------------------------------------------------------------------
(* The PDB symbol index of core/registers.cpp.  Names are sequences of     *)
(* character codes.                                                        *)

MaxSyms == 3

Names == {<<97>>, <<65>>, <<97, 98>>}

Offsets == {16, 18}

Queries == 15..19

\* The outputs of the PDB parser: every sequence of at most MaxSyms globals.
GlobalLists ==
    UNION {[1..n -> [name : Names, address : Offsets]] : n \in 0..MaxSyms}

MaxMembers == 1

TypeNames == {<<83>>}

MemberNames == {<<120>>}

MemberOffsets == {0, 8}

StructSizes == {16}

MemberLists ==
    UNION {[1..n -> [name : MemberNames, offset : MemberOffsets]] : n \in 0..MaxMembers}

\* The parser's types: none, or one type that is a structure with its
\* members or something else.
TypeLists ==
    {<<>>}
    \cup {<<[name |-> n, type_class |-> "other", size_bytes |-> 0, struct_members |-> <<>>]>> :
              n \in TypeNames}
    \cup {<<[name |-> n, type_class |-> "struct", size_bytes |-> z, struct_members |-> m]>> :
              n \in TypeNames, z \in StructSizes, m \in MemberLists}

Member(name_idx, offset) == [name_idx |-> name_idx, offset |-> offset]

Struc(name_idx, size, member_idx, member_end) ==
    [name_idx |-> name_idx, size |-> size,
     member_idx |-> member_idx, member_end |-> member_end]

Sym(name_idx, offset) == [name_idx |-> name_idx, offset |-> offset]

\* std::upper_bound over vec[first+1 .. first+len] with predicate
\* item.offset < b.offset: the number of elements before the insertion point.
RECURSIVE upper_bound(_, _, _, _)
upper_bound(vec, first, len, item) ==
    IF len <= 0 THEN first
    ELSE LET half   == len \div 2
             middle == first + half
         IN  IF item.offset < vec[middle + 1].offset
             THEN upper_bound(vec, first, half, item)
             ELSE upper_bound(vec, middle + 1, len - half - 1, item)

\* vec.insert(pos, item) with pos elements before the insertion point.
insert_at(vec, pos, item) ==
    SubSeq(vec, 1, pos) \o <<item>> \o SubSeq(vec, pos + 1, Len(vec))

\* The item put at the end, whatever its offset.
insert_unordered(vec, item) == Append(vec, item)

insert_ordered(vec, item) ==
    insert_at(vec, upper_bound(vec, 0, Len(vec), item), item)

\* The name followed by its terminating nul.
emplace_string(dst, item) == dst \o item \o <<0>>

\* The strings of the arena: string_view{&data_strings_[i]} runs to the next
\* nul, and the next one starts after it.
RECURSIVE split_strings(_, _)
split_strings(data, i) ==
    IF i > Len(data) THEN <<>>
    ELSE LET nul == CHOOSE j \in i..Len(data) :
                        data[j] = 0 /\ \A k \in i..(j - 1) : data[k] # 0
         IN  <<SubSeq(data, i, nul - 1)>> \o split_strings(data, nul + 1)

\* std::string_view operator<: bytes compared as unsigned, the shorter of
\* two strings with a common prefix first.
RECURSIVE str_less(_, _)
str_less(a, b) ==
    IF a = <<>> THEN b # <<>>
    ELSE IF b = <<>> THEN FALSE
    ELSE IF Head(a) < Head(b) THEN TRUE
    ELSE IF Head(a) > Head(b) THEN FALSE
    ELSE str_less(Tail(a), Tail(b))

\* std::sort is not stable: any arrangement of vec in which no element's
\* name is less than the name of an element before it.
sort_by_name(vec, strings) ==
    {s \in [1..Len(vec) -> {vec[i] : i \in 1..Len(vec)}] :
        /\ \A i, j \in 1..Len(vec) : i # j => s[i] # s[j]
        /\ \A i, j \in 1..Len(vec) :
               i < j => ~str_less(strings[s[j].name_idx + 1], strings[s[i].name_idx + 1])}

\* Pdb::setup, the loop over the members of one structure from member j on;
\* st holds data_strings_, idx and members_.
RECURSIVE setup_members(_, _, _)
setup_members(ms, j, st) ==
    IF j > Len(ms) THEN st
    ELSE setup_members(ms, j + 1,
             [st EXCEPT !.data = emplace_string(st.data, ms[j].name),
                        !.idx = st.idx + 1,
                        !.members = Append(st.members, Member(st.idx, ms[j].offset))])

\* Pdb::setup, the loop over the types from type i on.
RECURSIVE setup_types(_, _, _)
setup_types(tys, i, st) ==
    IF i > Len(tys) THEN st
    ELSE IF tys[i].type_class # "struct" THEN setup_types(tys, i + 1, st)
    ELSE LET named == [st EXCEPT !.data = emplace_string(st.data, tys[i].name),
                                 !.idx = st.idx + 1]
             after == setup_members(tys[i].struct_members, 1, named)
         IN  setup_types(tys, i + 1,
                 [after EXCEPT !.strucs =
                      Append(after.strucs,
                             Struc(st.idx, tys[i].size_bytes,
                                   Len(st.members), Len(after.members)))])

NoQuery ==
    [op |-> "none", arg |-> 0, struc |-> <<>>, sym |-> <<>>, found |-> FALSE,
     name |-> <<>>, delta |-> 0, value |-> 0]

\* Pdb::setup, load_pdb_file: the file loads or setup fails.
SetupLoad(loaded) ==
    /\ pc = "load"
    /\ pc' = IF loaded THEN "globals" ELSE "failed"
    /\ UNCHANGED <<globals, types, members_, strucs_, idx, data_strings_,
                   strings_, symbols_, offsets_to_symbols_, query, sanVars,
                   regVars, idVars>>

\* Pdb::setup, one turn of the loop over the globals.
SetupGlobal ==
    /\ pc = "globals"
    /\ idx < Len(globals)
    /\ LET it  == globals[idx + 1]
           sym == Sym(idx, it.address)
       IN  /\ data_strings_' = emplace_string(data_strings_, it.name)
           /\ idx' = idx + 1
           /\ symbols_' = Append(symbols_, sym)
           /\ offsets_to_symbols_' = insert_ordered(offsets_to_symbols_, sym)
    /\ UNCHANGED <<globals, types, members_, strucs_, pc, strings_, query,
                   sanVars, regVars, idVars>>

\* Pdb::setup, the loop over the types.
SetupTypes ==
    /\ pc = "globals"
    /\ idx = Len(globals)
    /\ LET st == setup_types(types, 1,
                     [data |-> data_strings_, idx |-> idx,
                      members |-> members_, strucs |-> strucs_])
       IN  /\ data_strings_' = st.data
           /\ idx' = st.idx
           /\ members_' = st.members
           /\ strucs_' = st.strucs
    /\ pc' = "strings"
    /\ UNCHANGED <<globals, types, strings_, symbols_, offsets_to_symbols_,
                   query, sanVars, regVars, idVars>>

\* Pdb::setup, after the loops: the string views and the sorts by name.
SetupFinish ==
    /\ pc = "strings"
    /\ strings_' = split_strings(data_strings_, 1)
    /\ symbols_' \in sort_by_name(symbols_, strings_')
    /\ strucs_' \in sort_by_name(strucs_, strings_')
    /\ pc' = "ready"
    /\ UNCHANGED <<globals, types, members_, idx, data_strings_,
                   offsets_to_symbols_, query, sanVars, regVars, idVars>>

\* std::lower_bound over vec[first+1 .. first+len] with predicate
\* a.offset < offset: the number of elements before the result.
RECURSIVE lower_bound_offset(_, _, _, _)
lower_bound_offset(vec, first, len, offset) ==
    IF len <= 0 THEN first
    ELSE LET half   == len \div 2
             middle == first + half
         IN  IF vec[middle + 1].offset < offset
             THEN lower_bound_offset(vec, middle + 1, len - half - 1, offset)
             ELSE lower_bound_offset(vec, first, half, offset)

\* make_cursor on the element at position it (1-based), or on the end.
make_cursor(strings, vec, it, at_end, offset) ==
    IF at_end THEN [found |-> FALSE, name |-> <<>>, delta |-> 0]
    ELSE [found |-> TRUE, name |-> strings[vec[it].name_idx + 1],
          delta |-> offset - vec[it].offset]

\* Pdb::find_symbol giving up when every offset is below the one asked for.
find_symbol_below_end(strings, vec, offset) ==
    LET it == lower_bound_offset(vec, 0, Len(vec), offset) + 1
    IN  IF it = Len(vec) + 1
        THEN [found |-> FALSE, name |-> <<>>, delta |-> 0]
        ELSE IF vec[it].offset = offset
        THEN make_cursor(strings, vec, it, FALSE, offset)
        ELSE IF it = 1
        THEN [found |-> FALSE, name |-> <<>>, delta |-> 0]
        ELSE make_cursor(strings, vec, it - 1, FALSE, offset)

find_symbol(strings, vec, offset) ==
    LET it == lower_bound_offset(vec, 0, Len(vec), offset) + 1
    IN  IF it = Len(vec) + 1
        THEN make_cursor(strings, vec, Len(vec), Len(vec) = 0, offset)
        ELSE IF vec[it].offset = offset
        THEN make_cursor(strings, vec, it, FALSE, offset)
        ELSE IF it = 1
        THEN [found |-> FALSE, name |-> <<>>, delta |-> 0]
        ELSE make_cursor(strings, vec, it - 1, FALSE, offset)

FindSymbol(offset) ==
    /\ pc = "ready"
    /\ LET r == find_symbol(strings_, offsets_to_symbols_, offset)
       IN  query' = [NoQuery EXCEPT !.op = "find_symbol", !.arg = offset,
                                    !.found = r.found, !.name = r.name,
                                    !.delta = r.delta]
    /\ UNCHANGED <<globals, types, members_, strucs_, pc, idx, data_strings_,
                   strings_, symbols_, offsets_to_symbols_, sanVars, regVars, idVars>>

\* std::lower_bound over vec[first+1 .. first+len] with predicate
\* strings[a.name_idx] < item: the number of elements before the result.
RECURSIVE lower_bound_name(_, _, _, _, _)
lower_bound_name(strings, vec, first, len, item) ==
    IF len <= 0 THEN first
    ELSE LET half   == len \div 2
             middle == first + half
         IN  IF str_less(strings[vec[middle + 1].name_idx + 1], item)
             THEN lower_bound_name(strings, vec, middle + 1, len - half - 1, item)
             ELSE lower_bound_name(strings, vec, first, half, item)

\* binary_search returning what the lower bound stops at, whatever its name.
binary_search_unchecked(strings, vec, item) ==
    LET it == lower_bound_name(strings, vec, 0, Len(vec), item) + 1
    IN  IF it = Len(vec) + 1 THEN nullopt ELSE Some(vec[it])

binary_search(strings, vec, item) ==
    LET it == lower_bound_name(strings, vec, 0, Len(vec), item) + 1
    IN  IF it = Len(vec) + 1 THEN nullopt
        ELSE IF strings[vec[it].name_idx + 1] # item THEN nullopt
        ELSE Some(vec[it])

symbol_offset(strings, symbols, symbol) ==
    LET opt_sym == binary_search(strings, symbols, symbol)
    IN  IF ~opt_sym.ok THEN nullopt ELSE Some(opt_sym.val.offset)

\* The names asked for: the names of the globals and one that sorts after
\* them all.
QueryNames == Names \cup {<<98>>}

SymbolOffset(symbol) ==
    /\ pc = "ready"
    /\ LET r == symbol_offset(strings_, symbols_, symbol)
       IN  query' = [NoQuery EXCEPT !.op = "symbol_offset", !.sym = symbol,
                                    !.found = r.ok, !.value = r.val]
    /\ UNCHANGED <<globals, types, members_, strucs_, pc, idx, data_strings_,
                   strings_, symbols_, offsets_to_symbols_, sanVars, regVars, idVars>>

\* tolower on the bytes of a name.
to_lower(c) == IF c \in 65..90 THEN c + 32 ELSE c

\* strnicmp(a, b, n) = 0: the first n bytes agree when lowered, or both
\* strings end together before that.
RECURSIVE strnicmp_equal(_, _, _)
strnicmp_equal(a, b, n) ==
    IF n = 0 THEN TRUE
    ELSE IF a = <<>> \/ b = <<>> THEN a = <<>> /\ b = <<>>
    ELSE IF to_lower(Head(a)) # to_lower(Head(b)) THEN FALSE
    ELSE strnicmp_equal(Tail(a), Tail(b), n - 1)

\* The comparison of member names made byte for byte.
is_exactly_equal(a, b) == a = b

is_lowercase_equal(a, b) ==
    IF Len(a) # Len(b) THEN FALSE ELSE strnicmp_equal(a, b, Len(a))

\* Pdb::member_offset, the loop over members_ from index i (0-based) up to
\* member_end.
RECURSIVE find_member(_, _, _, _, _)
find_member(strings, members, i, member_end, member) ==
    IF i = member_end THEN nullopt
    ELSE LET m == members[i + 1]
         IN  IF is_lowercase_equal(member, strings[m.name_idx + 1])
             THEN Some(m.offset)
             ELSE find_member(strings, members, i + 1, member_end, member)

member_offset(strings, strucs, members, struc, member) ==
    LET opt_struc == binary_search(strings, strucs, struc)
    IN  IF ~opt_struc.ok THEN nullopt
        ELSE find_member(strings, members, opt_struc.val.member_idx,
                         opt_struc.val.member_end, member)

MaxStructMembers == 2

\* Structure names that differ in letter case only, and member names that do.
StrucNames == {<<83>>, <<115>>}

FieldNames == {<<120>>, <<88>>}

FieldQueries == FieldNames \cup {<<121>>}

FieldLists ==
    UNION {[1..n -> [name : FieldNames, offset : MemberOffsets]] : n \in 0..MaxStructMembers}

\* A type of the parser: a structure with its members, or something else.
TypeRecs ==
    {[name |-> n, type_class |-> "other", size_bytes |-> 0, struct_members |-> <<>>] :
         n \in StrucNames}
    \cup {[name |-> n, type_class |-> "struct", size_bytes |-> z, struct_members |-> m] :
              n \in StrucNames, z \in StructSizes, m \in FieldLists}

\* types_byname holds one type per name; they come in either order.
StrucLists ==
    {<<>>} \cup {<<t>> : t \in TypeRecs}
    \cup {p \in TypeRecs \X TypeRecs : p[1].name # p[2].name}

\* The globals delivered ahead of the types: none, or one.
FewGlobals == {g \in GlobalLists : Len(g) <= 1 /\ \A k \in DOMAIN g : g[k] = [name |-> <<97>>, address |-> 16]}

MemberOffset(struc, member) ==
    /\ pc = "ready"
    /\ LET r == member_offset(strings_, strucs_, members_, struc, member)
       IN  query' = [NoQuery EXCEPT !.op = "member_offset", !.struc = struc,
                                    !.sym = member, !.found = r.ok,
                                    !.value = r.val]
    /\ UNCHANGED <<globals, types, members_, strucs_, pc, idx, data_strings_,
                   strings_, symbols_, offsets_to_symbols_, sanVars, regVars, idVars>>

PdbIdle ==
    /\ globals = <<>>
    /\ types = <<>>
    /\ members_ = <<>>
    /\ strucs_ = <<>>
    /\ pc = "load"
    /\ idx = 0
    /\ data_strings_ = <<>>
    /\ strings_ = <<>>
    /\ symbols_ = <<>>
    /\ offsets_to_symbols_ = <<>>
    /\ query = NoQuery

----------------------------------------------------------------------------
(* PDB identification of core/registers.cpp: read_pdb over an image.       *)

MaxTail == 3

rsds_magic == <<82, 83, 68, 83>>

\* Two GUIDs as stored in an image; the second holds the bytes of the magic.
GuidA == <<1, 35, 69, 103, 137, 171, 205, 239, 16, 50, 84, 118, 152, 186, 220, 254>>

GuidB == <<120, 86, 52, 18, 0, 10, 255, 9, 82, 83, 68, 83, 97, 97, 97, 97>>

\* Ages as stored, low byte first.
AgeA == <<1, 0, 0, 0>>

AgeB == <<10, 1, 0, 2>>

\* What follows the age: a letter, a byte that does not print, and nul.
TailBytes == {97, 1, 0}

Tails == UNION {[1..n -> TailBytes] : n \in 0..MaxTail}

\* Images without the magic.
NoMagic == {<<>>, <<82, 83, 68>>, <<83, 68, 83, 82, 0>>, GuidA \o AgeA \o <<97, 0>>}

Prefixes == {<<>>, <<82>>, <<0, 82, 83>>}

\* Images with one header, and images with a header of GuidB behind one of
\* GuidA.
Images ==
    NoMagic
    \cup {pre \o rsds_magic \o g \o a \o t :
              pre \in Prefixes, g \in {GuidA, GuidB}, a \in {AgeA, AgeB}, t \in Tails}
    \cup {rsds_magic \o GuidA \o AgeA \o t \o rsds_magic \o GuidB \o AgeB \o u :
              t \in Tails, u \in Tails}

\* What a read past the end of the buffer meets: memory that cannot be read,
\* or bytes: a nul at once, a nul behind a letter or behind a byte that does
\* not print, or no nul at all.
OobMemory ==
    {[mapped |-> FALSE, bytes |-> <<>>]}
    \cup {[mapped |-> TRUE, bytes |-> b] :
              b \in {<<0>>, <<97, 0>>, <<1, 0>>, [i \in 1..(4 + 16 + 4) |-> 97]}}

\* std::isprint in the C locale.
isprint(c) == c \in 32..126

\* The byte at index i of the buffer (0-based), or of what lies behind it.
byte_at(mem, behind, i) ==
    IF i < Len(mem) THEN mem[i + 1] ELSE behind.bytes[i - Len(mem) + 1]

\* search(&src[0], &src[src_size], rsds_pattern) from index first on: the
\* index of the first occurrence of the magic, or the end.
search(mem, first) ==
    LET found == {i \in first..(Len(mem) - 4) : SubSeq(mem, i + 1, i + 4) = rsds_magic}
    IN  IF found = {} THEN Len(mem)
        ELSE CHOOSE i \in found : \A j \in found : i <= j

\* memchr(&src[first], 0x00, n): the bytes are read in order until a nul is
\* met or n of them have been read.
RECURSIVE memchr(_, _, _, _)
memchr(mem, behind, first, n) ==
    IF n = 0 THEN [status |-> "none", pos |-> first, last |-> first - 1]
    ELSE IF first >= Len(mem) /\ ~behind.mapped
    THEN [status |-> "fault", pos |-> first, last |-> first]
    ELSE IF byte_at(mem, behind, first) = 0
    THEN [status |-> "found", pos |-> first, last |-> first]
    ELSE memchr(mem, behind, first + 1, n - 1)

\* The bytes of indexes first .. last - 1.
bytes_of(mem, behind, first, last) ==
    [i \in 1..(last - first) |-> byte_at(mem, behind, first + i - 1)]

read_pdb_name(mem, behind, ptr, end) ==
    IF \E i \in ptr..(end - 1) : ~isprint(byte_at(mem, behind, i))
    THEN nullopt
    ELSE Some(bytes_of(mem, behind, ptr, end))

read_le32(b) == b[1] + 256 * b[2] + 65536 * b[3] + 16777216 * b[4]

read_le16(b) == b[1] + 256 * b[2]

write_be32(v) ==
    <<v \div 16777216, (v \div 65536) % 256, (v \div 256) % 256, v % 256>>

write_be16(v) == <<v \div 256, v % 256>>

chars_upper == <<48, 49, 50, 51, 52, 53, 54, 55, 56, 57, 65, 66, 67, 68, 69, 70>>

\* hex::convert: two digits per byte, the high one first.
RECURSIVE hex_convert(_)
hex_convert(b) ==
    IF b = <<>> THEN <<>>
    ELSE <<chars_upper[(Head(b) \div 16) + 1], chars_upper[(Head(b) % 16) + 1]>>
             \o hex_convert(Tail(b))

\* std::to_string of an unsigned number.
RECURSIVE to_string(_)
to_string(v) ==
    IF v < 10 THEN <<48 + v>> ELSE to_string(v \div 10) \o <<48 + (v % 10)>>

\* The GUID put into the string in the order in which the image stores it.
strguid_age_stored(mem, rsds) ==
    hex_convert(SubSeq(mem, rsds + 5, rsds + 20))
        \o to_string(read_le32(SubSeq(mem, rsds + 21, rsds + 24)))

\* read_pdb, from the header found at index rsds: the GUID as a string with
\* the age behind it.
strguid_age(mem, rsds) ==
    LET at(first, n) == SubSeq(mem, rsds + first + 1, rsds + first + n)
        guid == write_be32(read_le32(at(4, 4))) \o write_be16(read_le16(at(8, 2)))
                    \o write_be16(read_le16(at(10, 2))) \o at(12, 8)
        age  == read_le32(at(4 + 16, 4))
    IN  hex_convert(guid) \o to_string(age)

NoPdbCtx == [found |-> FALSE, guid |-> <<>>, name |-> <<>>]

Max(a, b) == IF a >= b THEN a ELSE b

\* read_pdb, one turn of its loop.
ReadPdbTurn ==
    /\ rp_pc = "search"
    /\ LET end  == Len(buf)
           rsds == search(buf, src)
           size == end - rsds
           seen == IF src < end THEN Max(examined, end - 1) ELSE examined
           nul  == memchr(buf, oob, rsds + 4 + 16 + 4, size)
           name == read_pdb_name(buf, oob, rsds + 4 + 16 + 4, nul.pos)
       IN  IF rsds = end \/ size < 4 + 16 + 4 + 2
           THEN /\ rp_pc' = "done" /\ rp_res' = NoPdbCtx
                /\ src' = src /\ examined' = seen
           ELSE IF nul.status = "fault"
           THEN /\ rp_pc' = "fault" /\ rp_res' = NoPdbCtx
                /\ src' = src /\ examined' = Max(seen, nul.last)
           ELSE IF nul.status = "none"
           THEN /\ rp_pc' = "done" /\ rp_res' = NoPdbCtx
                /\ src' = src /\ examined' = Max(seen, nul.last)
           ELSE IF name.ok
           THEN /\ rp_pc' = "done"
                /\ rp_res' = [found |-> TRUE, guid |-> strguid_age(buf, rsds),
                              name |-> name.val]
                /\ src' = src /\ examined' = Max(seen, nul.last)
           ELSE /\ rp_pc' = "search" /\ rp_res' = NoPdbCtx
                /\ src' = rsds + 1 /\ examined' = Max(seen, nul.last)
    /\ UNCHANGED <<buf, oob, sanVars, regVars, pdbVars>>

IdIdle ==
    /\ buf = <<>>
    /\ oob = <<0>>
    /\ src = 0
    /\ rp_pc = "search"
    /\ rp_res = NoPdbCtx
    /\ examined = -1

----------------------------------------------------------------------------
(* The specifications.                                                     *)

EmptyMap == [x \in {} |-> 0]

InitSan(calls) ==
    /\ threads_allocating = {}
    /\ threads_reallocating = {}
    /\ heap_datas = EmptyMap
    /\ ret_ctxs = EmptyMap
    /\ stack = [t \in Threads |-> <<>>]
    /\ live = {}
    /\ budget = calls
    /\ own = EmptyMap
    /\ ev = [kind |-> "init", fn |-> "none", t |-> 0, thread_ok |-> TRUE,
             ok |-> TRUE, addr |-> 0, h |-> 0, base |-> 0, size |-> 0]
    /\ out = NoOut

Init == InitSan(MaxCalls) /\ RegsIdle /\ PdbIdle /\ IdIdle

\* Every hook, with the failures of the plugin's accesses to the guest; the
\* guest allocates from one call site and reallocates to one size.
MainAllocSites == {4096}

ReallocSizes == {24}

Next ==
    \/ \E t \in Threads, ra \in MainAllocSites, h \in HeapHandles, size \in Sizes, env \in Envs2 :
           AllocEntry(t, ra, h, size, env)
    \/ \E t \in Threads, ra \in CallSites("realloc"), h \in HeapHandles, base \in BaseAddrs,
          size \in ReallocSizes, env \in Envs :
           ReallocEntry(t, ra, h, base, size, env)
    \/ \E t \in Threads, ra \in CallSites("free"), h \in HeapHandles, base \in BaseAddrs, env \in Envs1 :
           FreeEntry(t, ra, h, base, env)
    \/ \E t \in Threads, ra \in CallSites("size"), h \in HeapHandles, base \in BaseAddrs, env \in Envs2 :
           SizeEntry(t, ra, h, base, env)
    \/ \E t \in Threads, ra \in CallSites("setuser"), h \in HeapHandles, base \in BaseAddrs, env \in Envs1 :
           SetUserValueEntry(t, ra, h, base, env)
    \/ \E t \in Threads, ra \in CallSites("getuser"), h \in HeapHandles, base \in BaseAddrs, env \in Envs1 :
           GetUserInfoEntry(t, ra, h, base, env)
    \/ \E t \in Threads, r \in Results, e \in RetEnvs :
           Return(t, r, e[1], e[2])

Spec == Init /\ [][Next]_vars

\* A guest that only allocates and frees and whose accesses by the plugin
\* all succeed, followed for more calls: nested allocations through both call
\* sites, failed allocations, blocks freed and handed out again.
MaxAllocCalls == 4

InitAllocFree == InitSan(MaxAllocCalls) /\ RegsIdle /\ PdbIdle /\ IdIdle

NextAllocFree ==
    \/ \E t \in Threads, ra \in CallSites("alloc"), h \in HeapHandles, size \in Sizes :
           AllocEntry(t, ra, h, size, AllOk)
    \/ \E t \in Threads, ra \in CallSites("free"), h \in HeapHandles, base \in BaseAddrs :
           FreeEntry(t, ra, h, base, AllOk)
    \/ \E t \in Threads, r \in Results :
           Return(t, r, TRUE, TRUE)

SpecAllocFree == InitAllocFree /\ [][NextAllocFree]_vars

\* The register accessors alone, over every content of the VM's registers.
InitRegs ==
    /\ InitSan(0)
    /\ PdbIdle
    /\ IdIdle
    /\ shm \in [reg : [Regs -> RegValues], msr : [Msrs -> RegValues]]
    /\ reg_op = NoRegOp

NextRegs ==
    \/ \E reg \in Regs, up \in BOOLEAN : ReadRegister(reg, up)
    \/ \E reg \in Msrs, up \in BOOLEAN : ReadMsr(reg, up)
    \/ \E reg \in Regs, value \in RegValues, up \in BOOLEAN : WriteRegister(reg, value, up)
    \/ \E reg \in Msrs, value \in RegValues, up \in BOOLEAN : WriteMsr(reg, value, up)

SpecRegs == InitRegs /\ [][NextRegs]_vars

\* The symbol index alone, over every output of the PDB parser.
InitPdb ==
    /\ InitSan(0)
    /\ RegsIdle
    /\ IdIdle
    /\ globals \in GlobalLists
    /\ types \in TypeLists
    /\ members_ = <<>>
    /\ strucs_ = <<>>
    /\ pc = "load"
    /\ idx = 0
    /\ data_strings_ = <<>>
    /\ strings_ = <<>>
    /\ symbols_ = <<>>
    /\ offsets_to_symbols_ = <<>>
    /\ query = NoQuery

NextPdb ==
    \/ \E loaded \in BOOLEAN : SetupLoad(loaded)
    \/ SetupGlobal
    \/ SetupTypes
    \/ SetupFinish
    \/ \E offset \in Queries : FindSymbol(offset)

SpecPdb == InitPdb /\ [][NextPdb]_vars

\* The symbol index asked for names.
NextPdbNames ==
    \/ \E loaded \in BOOLEAN : SetupLoad(loaded)
    \/ SetupGlobal
    \/ SetupTypes
    \/ SetupFinish
    \/ \E symbol \in QueryNames : SymbolOffset(symbol)

SpecPdbNames == InitPdb /\ [][NextPdbNames]_vars

\* The structure index: few globals, every pair of structures.
InitPdbStrucs ==
    /\ InitSan(0)
    /\ RegsIdle
    /\ IdIdle
    /\ globals \in FewGlobals
    /\ types \in StrucLists
    /\ members_ = <<>>
    /\ strucs_ = <<>>
    /\ pc = "load"
    /\ idx = 0
    /\ data_strings_ = <<>>
    /\ strings_ = <<>>
    /\ symbols_ = <<>>
    /\ offsets_to_symbols_ = <<>>
    /\ query = NoQuery

NextPdbStrucs ==
    \/ \E loaded \in BOOLEAN : SetupLoad(loaded)
    \/ SetupGlobal
    \/ SetupTypes
    \/ SetupFinish
    \/ \E struc \in StrucNames, member \in FieldQueries : MemberOffset(struc, member)

SpecPdbStrucs == InitPdbStrucs /\ [][NextPdbStrucs]_vars

\* read_pdb over every image and everything that can lie behind it.
InitId ==
    /\ InitSan(0)
    /\ RegsIdle
    /\ PdbIdle
    /\ buf \in Images
    /\ oob \in OobMemory
    /\ src = 0
    /\ rp_pc = "search"
    /\ rp_res = NoPdbCtx
    /\ examined = -1

NextId == ReadPdbTurn

SpecId == InitId /\ [][NextId]_vars

----------------------------------------------------------------------------
(* Properties of the heap sanitizer.                                       *)

\* Thread t has a call of fn ("alloc" or "realloc") in flight: its entry hook
\* went past its checks and installed a return-site breakpoint, which is
\* pending and whose callback has not run.
InFlight(t, fn) ==
    \E i \in 1..Len(stack[t]) :
        /\ stack[t][i].st = fn
        /\ \E k \in DOMAIN own : k[2] = t /\ own[k].owner = i /\ ~own[k].ran

\* C1: tracer pairing. A return callback that runs at the return of a call
\* is the callback that the entry hook of that very call installed, and it
\* has not run before: one callback per installing entry, on its thread and
\* at its return address, and none for an entry that installed none.
C1_TracerPairing ==
    (ev.kind = "ret" /\ out.fired) => (out.mine /\ ~out.again)

\* C2: a return-site breakpoint is consumed by its callback: once the
\* callback has run for key (return address, thread), the key is no longer
\* in ret_ctxs, whatever RAX held and whether or not the RAX write succeeded.
C2_ConsumedOnce ==
    (ev.kind = "ret" /\ out.fired) => ctx_t(ev.addr, ev.t) \notin DOMAIN ret_ctxs

\* C3: re-entrancy filter for allocation. An RtlpAllocateHeapInternal entry
\* hit on a thread with an allocation in flight rewrites no argument,
\* installs no breakpoint and adds no tracking entry; a thread that is
\* flagged in neither set is not filtered.
C3_AllocReentrancyFilter ==
    [][/\ (ev'.kind = "call" /\ ev'.fn = "alloc" /\ InFlight(ev'.t, "alloc"))
           => (/\ out'.writes = {}
               /\ ~out'.installed
               /\ ret_ctxs' = ret_ctxs
               /\ heap_datas' = heap_datas)
       /\ (/\ ev'.kind = "call" /\ ev'.fn = "alloc" /\ ev'.thread_ok
           /\ ev'.t \notin threads_allocating \cup threads_reallocating)
           => out'.passed]_vars

\* C4: nested entry hits of the realloc family are filtered: an alloc entry
\* hit on a thread with a realloc in flight, and a realloc entry hit on a
\* thread with an alloc or a realloc in flight, rewrite no argument, leave
\* heap_datas alone and install no breakpoint.
C4_ReallocReentrancyFilter ==
    [][(/\ ev'.kind = "call"
        /\ \/ ev'.fn = "alloc" /\ InFlight(ev'.t, "realloc")
           \/ ev'.fn = "realloc" /\ (InFlight(ev'.t, "alloc") \/ InFlight(ev'.t, "realloc")))
       => (/\ out'.writes = {}
           /\ ~out'.installed
           /\ ret_ctxs' = ret_ctxs
           /\ heap_datas' = heap_datas)]_vars

\* C5: return-site breakpoints are keyed on (return address, thread) and
\* filtered at registration: at most one is pending per key, each entry of
\* ret_ctxs is the breakpoint of its own key (so two threads at one address
\* have two entries), and no entry hook creates a breakpoint for a key that
\* already has one pending.
C5_KeyedAndFiltered ==
    /\ \A k \in DOMAIN ret_ctxs :
           /\ Cardinality(firing(k[1], k[2])) = 1
           /\ ret_ctxs[k].addr = k[1] /\ ret_ctxs[k].thread = k[2]
    /\ (ev.kind = "call" /\ out.installed) => ~out.dup

\* C6: size and pointer shift of an instrumented allocation. An alloc entry
\* hook that is not filtered and whose guest accesses succeed rewrites
\* argument 1 to Size + 0x20; its return callback, given a non-zero r in RAX,
\* leaves RAX = r + 0x10 and (HeapHandle, r + 0x10, thread) tracked with the
\* original Size.
C6_SizeAndPointerShift ==
    /\ (ev.kind = "call" /\ ev.fn = "alloc" /\ out.passed /\ ev.ok)
           => (out.writes = {<<1, ev.size + add_size>>} /\ out.installed)
    /\ (/\ ev.kind = "ret" /\ out.fired /\ out.mine /\ out.cb.kind = "alloc"
        /\ ev.ok /\ out.rax_in # 0)
           => (/\ out.rax_out = out.rax_in + half_add_size
               /\ heap_ctx_t(out.cb.HeapHandle, out.rax_out, ev.t) \in DOMAIN heap_datas
               /\ heap_datas[heap_ctx_t(out.cb.HeapHandle, out.rax_out, ev.t)] = out.cb.Size)

\* C7: a failed current-thread resolution aborts the hook with no effect: in
\* each of the six hooks, when thread_current() yields no thread, no argument
\* is written, no breakpoint is installed and the four containers are
\* unchanged.
C7_NoThreadNoEffect ==
    [][(ev'.kind = "call" /\ ~ev'.thread_ok)
       => (/\ out'.writes = {}
           /\ ~out'.installed
           /\ threads_allocating' = threads_allocating
           /\ threads_reallocating' = threads_reallocating
           /\ heap_datas' = heap_datas
           /\ ret_ctxs' = ret_ctxs)]_vars

\* An allocation that the filter would have let through was hooked without
\* a current thread, while the plugin was tracking a pointer.
C7_Witness ==
    /\ ev.kind = "call" /\ ev.fn = "alloc" /\ ~ev.thread_ok
    /\ ev.t \notin threads_allocating \cup threads_reallocating
    /\ DOMAIN heap_datas # {}

\* C8: registers::read and registers::read_msr report a failed channel read
\* as absent: what they return after a failed read differs from what they
\* return after a successful read of any value, the value 0 included.
C8_ReadValueOrAbsent ==
    (reg_op.op \in {"read", "read_msr"} /\ ~reg_op.done)
        => \A v \in RegValues : reg_op.ret # registers_read(Some(v))

\* C9: after Pdb::setup, offsets_to_symbols_ holds each symbol the parser
\* delivered exactly once and is sorted by non-decreasing offset.
C9_OrderedSymbols ==
    pc = "ready" =>
        /\ Len(offsets_to_symbols_) = Len(globals)
        /\ \A k \in 1..Len(globals) :
               Cardinality({i \in 1..Len(offsets_to_symbols_) :
                   offsets_to_symbols_[i] = Sym(k - 1, globals[k].address)}) = 1
        /\ \A i \in 1..(Len(offsets_to_symbols_) - 1) :
               offsets_to_symbols_[i].offset <= offsets_to_symbols_[i + 1].offset

\* Setup finished on symbols delivered out of offset order, two of them at
\* one offset.
C9_Witness ==
    /\ pc = "ready"
    /\ \E i, j \in 1..Len(globals) : i < j /\ globals[i].address > globals[j].address
    /\ \E i, j \in 1..Len(globals) : i < j /\ globals[i].address = globals[j].address

\* C10: for consecutive entries i, i+1 of offsets_to_symbols_ and every d
\* with 0 <= d < offset[i+1] - offset[i], find_symbol(offset[i] + d) returns
\* (name[i], d), also when entry i shares its offset with entries before it.
C10_FindSymbolInRange ==
    (pc = "ready" /\ query.op = "find_symbol") =>
        \A i \in 1..(Len(offsets_to_symbols_) - 1) :
            LET lo == offsets_to_symbols_[i].offset
                hi == offsets_to_symbols_[i + 1].offset
            IN  (lo <= query.arg /\ query.arg < hi) =>
                    /\ query.found
                    /\ query.name = strings_[offsets_to_symbols_[i].name_idx + 1]
                    /\ query.delta = query.arg - lo

\* C11: find_symbol(q) is a nearest-lower-or-equal lookup. It is absent
\* exactly when no symbol has an offset <= q; otherwise it names a symbol
\* whose offset is the greatest symbol offset <= q, with delta = q - that
\* offset, also when q is above the last symbol.
C11_NearestLowerOrEqual ==
    (pc = "ready" /\ query.op = "find_symbol") =>
        LET lower == {i \in 1..Len(offsets_to_symbols_) :
                          offsets_to_symbols_[i].offset <= query.arg}
        IN  /\ query.found <=> lower # {}
            /\ query.found =>
                   \E i \in lower :
                       /\ \A j \in lower :
                              offsets_to_symbols_[j].offset <= offsets_to_symbols_[i].offset
                       /\ query.name = strings_[offsets_to_symbols_[i].name_idx + 1]
                       /\ query.delta = query.arg - offsets_to_symbols_[i].offset

\* find_symbol was asked for an offset above the last of several symbols at
\* different offsets, and found one.
C11_Witness ==
    /\ pc = "ready" /\ query.op = "find_symbol" /\ query.found
    /\ Len(offsets_to_symbols_) >= 2
    /\ offsets_to_symbols_[1].offset < offsets_to_symbols_[Len(offsets_to_symbols_)].offset
    /\ \A i \in 1..Len(offsets_to_symbols_) : offsets_to_symbols_[i].offset < query.arg

\* C12: symbol_offset is an exact, case-sensitive name lookup. For a name
\* some global carries it returns the offset of a global of exactly that
\* name; for a string that is the name of no global (one differing in letter
\* case, a proper prefix, one sorting after all names) it returns absent.
C12_SymbolOffsetExact ==
    (pc = "ready" /\ query.op = "symbol_offset") =>
        LET named == {k \in 1..Len(globals) : globals[k].name = query.sym}
        IN  /\ query.found <=> named # {}
            /\ query.found => \E k \in named : query.value = globals[k].address

\* A name was found among globals that also hold the same letter in the other
\* case and a longer name it is a prefix of, delivered out of name order.
C12_Witness ==
    /\ pc = "ready" /\ query.op = "symbol_offset" /\ query.found
    /\ query.sym = <<97>>
    /\ Len(globals) = 3
    /\ globals[1].name = <<97, 98>> /\ globals[3].name = <<65>>

\* Two names are the same up to letter case.
SameIgnoringCase(a, b) ==
    Len(a) = Len(b) /\ \A k \in 1..Len(a) : to_lower(a[k]) = to_lower(b[k])

\* C13: member_offset(struc, member) matches the structure name exactly and
\* the member name ignoring letter case: it returns the offset of the first
\* member, in declaration order, of that structure whose name equals member
\* up to case, and absent when there is no such structure or no such member.
C13_MemberOffset ==
    (pc = "ready" /\ query.op = "member_offset") =>
        LET hits == {<<i, j>> \in (1..Len(types)) \X (1..MaxStructMembers + 1) :
                        /\ types[i].type_class = "struct"
                        /\ types[i].name = query.struc
                        /\ j <= Len(types[i].struct_members)
                        /\ SameIgnoringCase(types[i].struct_members[j].name, query.sym)}
        IN  /\ query.found <=> hits # {}
            /\ query.found =>
                   \E h \in hits :
                       /\ \A g \in hits : h[2] <= g[2]
                       /\ query.value = types[h[1]].struct_members[h[2]].offset

\* A member was found by a name in the other case ahead of a later member of
\* exactly that name, in one of two structures whose names differ in case.
C13_Witness ==
    /\ pc = "ready" /\ query.op = "member_offset" /\ query.found
    /\ Len(types) = 2 /\ types[1].type_class = "struct" /\ types[2].type_class = "struct"
    /\ \E i \in 1..2 :
           /\ types[i].name = query.struc
           /\ Len(types[i].struct_members) = 2
           /\ types[i].struct_members[1].name # query.sym
           /\ types[i].struct_members[2].name = query.sym
           /\ types[i].struct_members[1].offset # types[i].struct_members[2].offset
           /\ query.value = types[i].struct_members[1].offset

\* C15: in-flight flags always have a pending return hook. A thread is in
\* threads_allocating (threads_reallocating) only if ret_ctxs holds a pending
\* breakpoint for that thread whose callback erases it from that set.
C15_FlagsHavePendingHook ==
    \A t \in Threads :
        /\ t \in threads_allocating =>
               \E k \in DOMAIN ret_ctxs : k[2] = t /\ ret_ctxs[k].kind = "alloc"
        /\ t \in threads_reallocating =>
               \E k \in DOMAIN ret_ctxs : k[2] = t /\ ret_ctxs[k].kind = "realloc"

\* C16: pointer un-shifting matches tracking. In each hook that receives a
\* BaseAddress and whose accesses to the guest succeed, argument 2 is
\* rewritten to BaseAddress - 0x10 if and only if (HeapHandle, BaseAddress,
\* current thread) is tracked in heap_datas when the hook runs, and a free of
\* a tracked pointer removes its tracking entry.
C16_UnshiftMatchesTracking ==
    [][(/\ ev'.kind = "call" /\ ev'.ok
        /\ ev'.fn \in {"realloc", "free", "size", "setuser", "getuser"})
       => LET ctx == heap_ctx_t(ev'.h, ev'.base, ev'.t)
              tracked == is_addr_tracked(heap_datas, ctx)
          IN  /\ (<<2, ev'.base - half_add_size>> \in out'.writes) <=> tracked
              /\ (\E w \in out'.writes : w[1] = 2) => tracked
              /\ (ev'.fn = "free" /\ tracked) => ~is_addr_tracked(heap_datas', ctx)]_vars

----------------------------------------------------------------------------
(* Properties of the PDB identification.                                   *)

\* The indexes at which the magic stands in the image.
Occurrences == {p \in 0..(Len(buf) - 4) : SubSeq(buf, p + 1, p + 4) = rsds_magic}

\* Behind the magic at p, the GUID and the age, the image holds a name of
\* printable bytes that ends with a nul at index q.
NameEnds(p, q) ==
    /\ p + 4 + 16 + 4 <= q /\ q < Len(buf)
    /\ buf[q + 1] = 0
    /\ \A i \in (p + 4 + 16 + 4)..(q - 1) : isprint(buf[i + 1])

WellFormed(p) == \E q \in 0..(Len(buf) - 1) : NameEnds(p, q)

\* The name of the header at p, and its id: 32 upper-case hex digits (Data1,
\* Data2 and Data3 byte-reversed, Data4 as stored), then the age in decimal.
HeaderName(p) ==
    LET q == CHOOSE q \in 0..(Len(buf) - 1) : NameEnds(p, q)
    IN  SubSeq(buf, p + 4 + 16 + 4 + 1, q)

HeaderId(p) ==
    LET g == SubSeq(buf, p + 5, p + 20)
        a == SubSeq(buf, p + 21, p + 24)
    IN  hex_convert(<<g[4], g[3], g[2], g[1], g[6], g[5], g[8], g[7]>> \o SubSeq(g, 9, 16))
            \o to_string(a[1] + 256 * a[2] + 65536 * a[3] + 16777216 * a[4])

\* C14: PDB identification. When the magic in the image is followed by a
\* GUID, an age and a nul-terminated name of printable bytes, read_pdb
\* returns that name and the id of that header; when the image holds no
\* magic it returns absent.
C14_Identification ==
    (rp_pc # "search") =>
        /\ Occurrences = {} => (rp_pc = "done" /\ ~rp_res.found)
        /\ \A p \in Occurrences :
               ((\A o \in Occurrences : p <= o) /\ WellFormed(p))
                   => /\ rp_pc = "done" /\ rp_res.found
                      /\ rp_res.name = HeaderName(p)
                      /\ rp_res.guid = HeaderId(p)

\* C14, for headers that read_pdb takes as large enough: when the first
\* magic in the image has at least 4 + 16 + 4 + 2 bytes from its first byte to
\* the end of the image and is followed by a GUID, an age and a
\* nul-terminated name of printable bytes, read_pdb returns that name and
\* the id of that header; when the image holds no magic it returns absent.
C14_IdentificationSized ==
    (rp_pc # "search") =>
        /\ Occurrences = {} => (rp_pc = "done" /\ ~rp_res.found)
        /\ \A p \in Occurrences :
               (/\ \A o \in Occurrences : p <= o
                /\ WellFormed(p)
                /\ Len(buf) - p >= 4 + 16 + 4 + 2)
                   => /\ rp_pc = "done" /\ rp_res.found
                      /\ rp_res.name = HeaderName(p)
                      /\ rp_res.guid = HeaderId(p)

\* read_pdb identified a header that stands behind other bytes and ends the
\* image with the nul of its name, by a GUID whose fields are not palindromes.
C14_Witness ==
    /\ rp_pc = "done" /\ rp_res.found
    /\ Len(rp_res.name) >= 2
    /\ \E p \in Occurrences :
           /\ p > 0 /\ \A o \in Occurrences : p <= o
           /\ Len(buf) = p + 4 + 16 + 4 + Len(rp_res.name) + 1
           /\ SubSeq(buf, p + 5, p + 20) = GuidB
           /\ rp_res.guid = HeaderId(p)

\* C17: read_pdb stays inside its input. Every byte it examines has an index
\* in [0, src_size), and it never reads memory behind the buffer, also when a
\* header's name has no nul before the end of the buffer.
C17_StaysInside ==
    /\ rp_pc # "fault"
    /\ examined < Len(buf)

\* C18: read_pdb skips false matches and terminates. A turn that does not
\* end the loop resumes the search one byte after the occurrence it
\* rejected, which is further in the buffer; and the result is the header of
\* the first occurrence of the magic whose name is entirely printable up to
\* its nul, or absent when there is none.
C18_SkipsAndTerminates ==
    [][/\ rp_pc' = "search" =>
              (src' = search(buf, src) + 1 /\ src < src' /\ src' <= Len(buf))
       /\ rp_pc' # "search" =>
              LET good == {p \in Occurrences : WellFormed(p)}
              IN  /\ rp_pc' = "done"
                  /\ good = {} => ~rp_res'.found
                  /\ \A p \in good :
                         (\A o \in good : p <= o)
                             => /\ rp_res'.found
                                /\ rp_res'.name = HeaderName(p)
                                /\ rp_res'.guid = HeaderId(p)]_vars

====
